---- MODULE Spec2Model ----
(***************************************************************************)
(* Model of the DTMF decoding engine of rtl_dtmf.py: the tone classifier,  *)
(* the button state machine, the sequence buffer (update_buffer), stop()   *)
(* and the main loop of DTMF.start().                                      *)
(*                                                                         *)
(* One loop iteration is split into the steps of the loop body:            *)
(*   Read -> Decode -> Sequence -> Callback -> Check                       *)
(* The spectral front end (frombuffer / rfft / abs / per-band amax) is     *)
(* represented by its result: a chunk is given as the vector of the eight  *)
(* integer band intensities tone_intensity[0..7] it produces; indices are  *)
(* 1-based here.  Strings that grow (code_buffer, code, kill_code) are     *)
(* sequences of one-character strings.                                     *)
(***************************************************************************)
EXTENDS Integers, Sequences, FiniteSets, TLC

VARIABLES
    button_value,     \* Button.value: "" or a key symbol
    button_status,    \* Button.status: "", "DOWN", "HELD", "UP"
    snr,              \* DTMF.snr
    code_buffer,      \* DTMF.code_buffer
    code,             \* DTMF.code
    last_keypress,    \* DTMF.last_keypress, in clock ticks
    kill,             \* DTMF.kill
    rtl_fm,           \* the rtl_fm subprocess: "running", "exited", "killed"
    enable_sequence,  \* DTMF.enable_sequence
    code_terminator,  \* DTMF.code_terminator
    kill_code,        \* DTMF.kill_code
    code_timeout,     \* DTMF.code_timeout
    snr_threshold,    \* DTMF.snr_threshold
    floor_div_zero,   \* what x // 0.0 (x > 0) gives in the numpy build in use
    pc,               \* position in the loop body
    bln_full,         \* local flag of start()
    data,             \* band intensities of the chunk last read; <<>> = no samples
    now,              \* the wall clock, in ticks
    chunk_size,       \* DTMF.chunk_size, in bytes
    sample_rate,      \* DTMF.sample_rate
    start,            \* local of start(): first bin index of each band
    end,              \* local of start(): last bin index of each band
    fft,              \* magnitudes of the last transform; <<>> = not modelled
    seen_status,      \* button.status as the previous callback saw it
    seen_value,       \* button.value as the previous callback saw it
    calls,            \* callbacks invoked in the current iteration
    pwm,              \* dtmf_rover: PWM duty cycle of each motor driver pin
    released          \* history: the symbols whose release was decoded since
                      \* code_buffer was last emptied, in order

vars == <<button_value, button_status, snr, code_buffer, code, last_keypress,
          kill, rtl_fm, enable_sequence, code_terminator, kill_code,
          code_timeout, snr_threshold, floor_div_zero, pc, bln_full, data,
          now, chunk_size, sample_rate, start, end, fft,
          seen_status, seen_value, calls, pwm, released>>

config == <<enable_sequence, code_terminator, kill_code, code_timeout,
            snr_threshold, floor_div_zero, chunk_size, sample_rate>>

\* The bin ranges of the bands.
bands == <<start, end>>

(***************************************************************************)
(* Bounds of the model.                                                    *)
(***************************************************************************)
MaxTime == 4      \* the clock stops advancing here
MaxTick == 1      \* most ticks one blocking read can take
MaxBuf == 3       \* no further chunk is read once code_buffer is this long
MaxI == 3         \* largest band intensity in the exhaustive classifier check
MaxMag == 40      \* magnitude of the peak of a transform

(***************************************************************************)
(* Tables of rtl_dtmf.py.                                                  *)
(***************************************************************************)
DTMF_FREQ == <<697, 770, 852, 941, 1209, 1336, 1477, 1633>>
DTMF_START == <<679, 750, 830, 875, 1177, 1301, 1438, 1594>>
DTMF_END == <<715, 791, 874, 1008, 1241, 1371, 1516, 1672>>

KEYS == (<<697, 1209>> :> "1") @@ (<<697, 1336>> :> "2") @@
        (<<697, 1477>> :> "3") @@ (<<697, 1633>> :> "A") @@
        (<<770, 1209>> :> "4") @@ (<<770, 1336>> :> "5") @@
        (<<770, 1477>> :> "6") @@ (<<770, 1633>> :> "B") @@
        (<<852, 1209>> :> "7") @@ (<<852, 1336>> :> "8") @@
        (<<852, 1477>> :> "9") @@ (<<852, 1633>> :> "C") @@
        (<<941, 1209>> :> "*") @@ (<<941, 1336>> :> "0") @@
        (<<941, 1477>> :> "#") @@ (<<941, 1633>> :> "D")

None == "None"

\* KEYS.get((tone1, tone2), None)
KeysGet(t1, t2) == IF <<t1, t2>> \in DOMAIN KEYS THEN KEYS[<<t1, t2>>] ELSE None

(***************************************************************************)
(* Startup of start(): lines 136-175.                                      *)
(***************************************************************************)
\* The n handed to rfftfreq: chunk_size // 2
FreqN(cs) == cs \div 2

\* len(fft_freqs) = n // 2 + 1, also the length of rfft of n samples
NumBins(cs) == (FreqN(cs) \div 2) + 1

\* fft_freqs[k] = k * sample_rate / n lies in [DTMF_START[b], DTMF_END[b]].
\* Compared in exact arithmetic, which agrees with the float comparison for
\* the chunk sizes of ChunkSizes.
InBand(b, cs, sr) ==
    {k \in 0..(NumBins(cs) - 1) :
        /\ k * sr >= DTMF_START[b] * FreqN(cs)
        /\ k * sr <= DTMF_END[b] * FreqN(cs)}

\* The bins above the band: the first of them ends the inner loop.
AboveBand(b, cs, sr) ==
    {k \in 0..(NumBins(cs) - 1) : k * sr > DTMF_END[b] * FreqN(cs)}

SetMin(S) == CHOOSE x \in S : \A y \in S : x <= y
SetMax(S) == CHOOSE x \in S : \A y \in S : y <= x

\* rfftfreq divides by n: ZeroDivisionError when chunk_size // 2 = 0.
\* temp[0] raises IndexError when a band has no bin but a bin above it.
StartupFails(cs, sr) ==
    \/ FreqN(cs) = 0
    \/ \E b \in 1..8 : AboveBand(b, cs, sr) # {} /\ InBand(b, cs, sr) = {}

\* start[b] = temp[0]; a band no bin lies above keeps the initial 0.
StartIndex(b, cs, sr) ==
    IF AboveBand(b, cs, sr) = {} THEN 0 ELSE SetMin(InBand(b, cs, sr))

\* end[b] = temp[len(temp) - 1]
EndIndex(b, cs, sr) ==
    IF AboveBand(b, cs, sr) = {} THEN 0 ELSE SetMax(InBand(b, cs, sr))

(***************************************************************************)
(* Spectral analysis: lines 194-209.                                       *)
(***************************************************************************)
\* np.amax(fft[lo:hi]) on a magnitude array m indexed from 0; the slice
\* leaves out index hi.
SliceMax(m, lo, hi) == SetMax({m[k] : k \in lo..(hi - 1)})

\* np.frombuffer raises ValueError on an odd number of bytes, np.fft.rfft on
\* no samples, np.amax on an empty slice.
AnalysisFails(nbytes, st, en) ==
    \/ nbytes % 2 = 1
    \/ nbytes = 0
    \/ \E b \in 1..8 : st[b] >= en[b]

\* tone_intensity
BandIntensities(m, st, en) == [b \in 1..8 |-> SliceMax(m, st[b], en[b])]

(***************************************************************************)
(* Tone classifier: lines 211-228.                                         *)
(***************************************************************************)
\* np.amax over the four bands lo..lo+3
Amax(I, lo) == CHOOSE m \in {I[i] : i \in lo..(lo + 3)} :
                   \A i \in lo..(lo + 3) : I[i] <= m

\* np.argmax over the four bands lo..lo+3: the first index of the maximum
Argmax(I, lo) == CHOOSE i \in lo..(lo + 3) :
                     /\ I[i] = Amax(I, lo)
                     /\ \A j \in lo..(i - 1) : I[j] < Amax(I, lo)

tone1_level(I) == Amax(I, 1)
tone1_index(I) == Argmax(I, 1)
tone1(I) == DTMF_FREQ[tone1_index(I)]
tone2_level(I) == Amax(I, 5)
tone2_index(I) == Argmax(I, 5)
tone2(I) == DTMF_FREQ[tone2_index(I)]

\* tone_intensity.sum()
IntensitySum(I) == I[1] + I[2] + I[3] + I[4] + I[5] + I[6] + I[7] + I[8]

\* signal = (tone1_level + tone2_level) / 2, kept as twice its value
signal2(I) == tone1_level(I) + tone2_level(I)

\* noise = (sum - signal * 2) / 6, kept as six times its value
noise6(I) == IntensitySum(I) - signal2(I)

\* The values self.snr takes: a float that is a whole number, inf or nan.
Num(n) == [kind |-> "num", val |-> n]
Inf == [kind |-> "inf", val |-> 0]
NaN == [kind |-> "nan", val |-> 0]

\* The integers r in 1..60 for which the double nearest to r/6 is above r/6.
\* noise is that double, so a quotient signal/noise that is a whole number
\* in exact arithmetic falls just below it, and // gives one less.
NoiseRoundsUp == {5, 7, 10, 14, 17, 20, 23, 25, 28, 31, 34, 37, 40, 43, 46,
                  50, 53, 56, 59}

\* signal // noise on float64, from twice the signal and six times the noise:
\* the exact quotient is (s2/2) / (n6/6) = 3*s2 / n6.
FloorDiv(s2, n6, dz) ==
    IF n6 = 0
    THEN IF s2 = 0 THEN NaN
         ELSE IF dz = "inf" THEN Inf ELSE NaN
    ELSE LET q == (3 * s2) \div n6
         IN  IF (3 * s2) % n6 = 0 /\ n6 \in NoiseRoundsUp /\ q > 0
             THEN Num(q - 1)
             ELSE Num(q)

\* self.snr >= self.snr_threshold (every comparison with nan is False)
SnrGE(s, thr) == s.kind = "inf" \/ (s.kind = "num" /\ s.val >= thr)

(***************************************************************************)
(* Button state machine: lines 230-254.                                    *)
(***************************************************************************)
Btn(v, st) == [value |-> v, status |-> st]

ButtonUpdate_UpSticks(value, status, s, key, thr) ==
    IF SnrGE(s, thr)
    THEN IF key # None
         THEN IF value # key THEN Btn(key, "DOWN") ELSE Btn(key, "HELD")
         ELSE Btn(value, status)
    ELSE IF status # "" THEN Btn(value, "UP") ELSE Btn("", "")

ButtonUpdate_KeepsValue(value, status, s, key, thr) ==
    IF SnrGE(s, thr)
    THEN IF key # None
         THEN IF value # key THEN Btn(key, "DOWN") ELSE Btn(key, "HELD")
         ELSE Btn(value, status)
    ELSE IF status = "UP" THEN Btn(value, "")
         ELSE IF status # "" THEN Btn(value, "UP")
         ELSE Btn("", "")

ButtonUpdate(value, status, s, key, thr) ==
    IF SnrGE(s, thr)
    THEN IF key # None
         THEN IF value # key THEN Btn(key, "DOWN") ELSE Btn(key, "HELD")
         ELSE Btn(value, status)
    ELSE IF status = "UP" THEN Btn("", "")
         ELSE IF status # "" THEN Btn(value, "UP")
         ELSE Btn("", "")

(***************************************************************************)
(* Sequence buffer: update_buffer, lines 89-121.                           *)
(***************************************************************************)
\* code_buffer += button.value
StrAppend(buf, v) == IF v = "" THEN buf ELSE Append(buf, v)

\* code_buffer[0: len(code_buffer) - 1]
DropLast(buf) == IF Len(buf) = 0 THEN <<>> ELSE SubSeq(buf, 1, Len(buf) - 1)

Seq3(b, c, lk) == [code_buffer |-> b, code |-> c, last_keypress |-> lk]

update_buffer_LateKey(buf, lk, status, value, term, timeout, current_time) ==
    IF current_time - lk <= timeout \/ status = "UP"
    THEN IF status = "UP"
         THEN IF value = term
              THEN Seq3(<<>>, DropLast(StrAppend(buf, value)), current_time)
              ELSE Seq3(StrAppend(buf, value), <<>>, current_time)
         ELSE Seq3(buf, <<>>, lk)
    ELSE Seq3(<<>>, <<>>, current_time)

update_buffer_KeepsBuffer(buf, lk, status, value, term, timeout, current_time) ==
    IF current_time - lk <= timeout
    THEN IF status = "UP"
         THEN IF value = term
              THEN Seq3(StrAppend(buf, value), DropLast(StrAppend(buf, value)),
                        current_time)
              ELSE Seq3(StrAppend(buf, value), <<>>, current_time)
         ELSE Seq3(buf, <<>>, lk)
    ELSE Seq3(<<>>, <<>>, current_time)

update_buffer_StaleKeypress(buf, lk, status, value, term, timeout, current_time) ==
    IF current_time - lk <= timeout
    THEN IF status = "UP"
         THEN IF value = term
              THEN Seq3(<<>>, DropLast(StrAppend(buf, value)), lk)
              ELSE Seq3(StrAppend(buf, value), <<>>, lk)
         ELSE Seq3(buf, <<>>, lk)
    ELSE Seq3(<<>>, <<>>, current_time)

\* The new code_buffer, code and last_keypress; code is cleared first.
update_buffer(buf, lk, status, value, term, timeout, current_time) ==
    IF current_time - lk <= timeout
    THEN IF status = "UP"
         THEN IF value = term
              THEN Seq3(<<>>, DropLast(StrAppend(buf, value)), current_time)
              ELSE Seq3(StrAppend(buf, value), <<>>, current_time)
         ELSE Seq3(buf, <<>>, lk)
    ELSE Seq3(<<>>, <<>>, current_time)

(***************************************************************************)
(* stop(), lines 123-132: kills rtl_fm and sets the flag.                  *)
(***************************************************************************)
stop_FlagOnly == [rtl_fm |-> rtl_fm, kill |-> TRUE]

stop == [rtl_fm |-> "killed", kill |-> TRUE]

(***************************************************************************)
(* dtmf_rover.py: the motor driver pins and the callback.                  *)
(***************************************************************************)
MOTOR1_FORWARD == 27
MOTOR1_REVERSE == 17
MOTOR2_FORWARD == 24
MOTOR2_REVERSE == 23

FORWARD_SPEED == 255
REVERSE_SPEED == 255
TURN_SPEED == 255

Pins == {MOTOR1_FORWARD, MOTOR1_REVERSE, MOTOR2_FORWARD, MOTOR2_REVERSE}

\* pi.set_PWM_dutycycle(pin, v) on the duty cycles p
set_PWM_dutycycle(p, pin, v) == [p EXCEPT ![pin] = v]

\* stop() of dtmf_rover.py
rover_stop(p) ==
    set_PWM_dutycycle(
        set_PWM_dutycycle(
            set_PWM_dutycycle(
                set_PWM_dutycycle(p, MOTOR1_FORWARD, 0),
                MOTOR1_REVERSE, 0),
            MOTOR2_FORWARD, 0),
        MOTOR2_REVERSE, 0)

forward(p) ==
    set_PWM_dutycycle(set_PWM_dutycycle(p, MOTOR1_FORWARD, FORWARD_SPEED),
                      MOTOR2_FORWARD, FORWARD_SPEED)

reverse(p) ==
    set_PWM_dutycycle(set_PWM_dutycycle(p, MOTOR1_REVERSE, REVERSE_SPEED),
                      MOTOR2_REVERSE, REVERSE_SPEED)

left(p) ==
    set_PWM_dutycycle(set_PWM_dutycycle(p, MOTOR1_FORWARD, TURN_SPEED),
                      MOTOR2_REVERSE, TURN_SPEED)

right(p) ==
    set_PWM_dutycycle(set_PWM_dutycycle(p, MOTOR1_REVERSE, TURN_SPEED),
                      MOTOR2_FORWARD, TURN_SPEED)

\* main() of dtmf_rover.py: the duty cycles it leaves
main(p, status, value) ==
    IF status = "DOWN"
    THEN IF value = "2" THEN forward(p)
         ELSE IF value = "6" THEN right(p)
         ELSE IF value = "4" THEN left(p)
         ELSE IF value = "8" THEN reverse(p)
         ELSE p
    ELSE IF status = "UP" THEN rover_stop(p)
    ELSE p

(***************************************************************************)
(* Inputs of the engine loop.                                              *)
(***************************************************************************)
\* A chunk whose bands l and h are at `level` and all others at `floor`.
Tone(l, h, level, floor) ==
    [i \in 1..8 |-> IF i = l \/ i = h THEN level ELSE floor]

\* Bands of the keys "9" (852, 1477) and "#" (941, 1477).
ChunkKeys == {<<3, 7>>, <<4, 7>>}
ChunkLevels == {0, 30}
ChunkFloors == {0, 1}

\* Exact SNR 9 (signal 7.5, noise 5/6) for key "1".
BoundaryChunk == <<8, 1, 1, 1, 7, 1, 1, 0>>

Chunks == {Tone(k[1], k[2], s, n) :
              k \in ChunkKeys, s \in ChunkLevels, n \in ChunkFloors}
          \cup {BoundaryChunk}

\* Bands of the keys "2", "6", "4", "8" (the rover's directions) and "5".
RoverKeys == {<<1, 6>>, <<2, 7>>, <<2, 5>>, <<3, 6>>, <<2, 6>>}

RoverChunks == {Tone(k[1], k[2], s, n) :
                   k \in RoverKeys, s \in ChunkLevels, n \in ChunkFloors}

\* dtmf.snr_threshold = 15
RoverThresholds == {15}

\* Every vector of eight intensities in 0..MaxI.
AllChunks == [1..8 -> 0..MaxI]

\* A transform with magnitude `level` in bin k and `floor` elsewhere.
Peak(cs, k, level, floor) ==
    [b \in 0..(NumBins(cs) - 1) |-> IF b = k THEN level ELSE floor]

SpectrumFloors == {0, 1}

\* The single-peak transforms of a chunk of cs bytes.
Spectra(cs) == {Peak(cs, k, MaxMag, f) :
                   k \in 0..(NumBins(cs) - 1), f \in SpectrumFloors}

\* The default; default + 1 (odd); 2 (one bin, no band resolved, nothing above
\* any band); 4 (no bin in any band, one above).
ChunkSizes == {3600, 3601, 2, 4}
SampleRates == {24000}

Terminators == {"", "#"}
KillCodes == {<<>>, <<"9">>, <<"9", "9">>}
Timeouts == {1}
Thresholds == {9}
ClassifyThresholds == {3, 9}
FloorDivZero == {"inf", "nan"}

(***************************************************************************)
(* State after DTMF() and the caller's configuration, before start().      *)
(***************************************************************************)
Constructed ==
    /\ button_value = ""
    /\ button_status = ""
    /\ snr = Num(0)
    /\ code_buffer = <<>>
    /\ code = <<>>
    /\ last_keypress = 0
    /\ kill = FALSE
    /\ rtl_fm = "none"
    /\ bln_full = FALSE
    /\ data = <<>>
    /\ now = 0
    /\ start = [b \in 1..8 |-> 0]
    /\ end = [b \in 1..8 |-> 0]
    /\ fft = <<>>
    /\ seen_status = ""
    /\ seen_value = ""
    /\ calls = 0
    /\ pwm = [pin \in Pins |-> 0]
    /\ released = <<>>

Init ==
    /\ Constructed
    /\ enable_sequence \in BOOLEAN
    /\ code_terminator \in Terminators
    /\ kill_code \in KillCodes
    /\ code_timeout \in Timeouts
    /\ snr_threshold \in Thresholds
    /\ floor_div_zero \in FloorDivZero
    /\ chunk_size \in ChunkSizes
    /\ sample_rate \in SampleRates
    /\ pc = "start"

(***************************************************************************)
(* Lines 136-175: the bins, the rtl_fm subprocess, the band ranges.        *)
(***************************************************************************)
Start ==
    /\ pc = "start"
    /\ IF StartupFails(chunk_size, sample_rate)
       THEN /\ pc' = "failed"
            /\ rtl_fm' = IF FreqN(chunk_size) = 0 THEN rtl_fm ELSE "running"
            /\ UNCHANGED bands
       ELSE /\ pc' = "read"
            /\ rtl_fm' = "running"
            /\ start' = [b \in 1..8 |-> StartIndex(b, chunk_size, sample_rate)]
            /\ end' = [b \in 1..8 |-> EndIndex(b, chunk_size, sample_rate)]
    /\ UNCHANGED <<button_value, button_status, snr, code_buffer, code,
                   last_keypress, kill, bln_full, data, now, fft,
                   seen_status, seen_value, calls, config, pwm, released>>

(***************************************************************************)
(* The loop body of start(), lines 180-270.                                *)
(***************************************************************************)
\* Lines 182-190: the blocking read.  outcome "full": a chunk d arrived;
\* "eof": rtl_fm has exited and read() returns b''; "error": read() raised.
ReadStep(outcome, d, tick) ==
    /\ pc = "read"
    /\ now + tick <= MaxTime
    /\ Len(code_buffer) < MaxBuf
    /\ now' = now + tick
    /\ calls' = 0
    /\ \/ /\ outcome = "full"
          /\ rtl_fm = "running"
          /\ bln_full' = TRUE
          /\ data' = d
          /\ pc' = "decode"
          /\ UNCHANGED rtl_fm
       \/ /\ outcome = "eof"
          /\ bln_full' = TRUE
          /\ data' = <<>>
          /\ rtl_fm' = "exited"
          /\ pc' = "decode"
       \/ /\ outcome = "error"
          /\ bln_full' = FALSE
          /\ pc' = "sequence"
          /\ UNCHANGED <<data, rtl_fm>>
    /\ UNCHANGED <<button_value, button_status, snr, code_buffer, code,
                   last_keypress, kill, seen_status, seen_value, config,
                   bands, fft, pwm, released>>

Read == \E outcome \in {"full", "eof", "error"}, d \in Chunks, tick \in 0..MaxTick :
            ReadStep(outcome, d, tick)

\* The values the decode of intensities I leaves in snr and the button.
DecodeResult(I, value, status, thr, dz) ==
    LET s == FloorDiv(signal2(I), noise6(I), dz)
        key == KeysGet(tone1(I), tone2(I))
        b == ButtonUpdate(value, status, s, key, thr)
    IN  [snr |-> s, value |-> b.value, status |-> b.status]

\* Lines 193-254.  With no samples np.fft.rfft raises ValueError, which
\* nothing catches: start() is left through the exception; so it is with an
\* odd number of bytes and with a band whose slice is empty.
Decode ==
    /\ pc = "decode"
    /\ IF AnalysisFails(IF data = <<>> THEN 0 ELSE chunk_size, start, end)
       THEN /\ pc' = "crashed"
            /\ UNCHANGED <<snr, button_value, button_status>>
       ELSE LET r == DecodeResult(data, button_value, button_status,
                                  snr_threshold, floor_div_zero)
            IN  /\ snr' = r.snr
                /\ button_value' = r.value
                /\ button_status' = r.status
                /\ pc' = "sequence"
    /\ UNCHANGED <<code_buffer, code, last_keypress, kill, rtl_fm, bln_full,
                   data, now, seen_status, seen_value, calls, config,
                   bands, fft, pwm, released>>

\* Lines 256-262.  released records the release decoded in this iteration
\* (the chunk was read, the status went from DOWN or HELD to UP) whenever
\* update_buffer leaves code_buffer non-empty.
Sequence ==
    /\ pc = "sequence"
    /\ pc' = "callback"
    /\ IF enable_sequence
       THEN LET u == update_buffer(code_buffer, last_keypress, button_status,
                                   button_value, code_terminator,
                                   code_timeout, now)
            IN  /\ code_buffer' = u.code_buffer
                /\ code' = u.code
                /\ last_keypress' = u.last_keypress
                /\ released' =
                       IF u.code_buffer = <<>> THEN <<>>
                       ELSE IF /\ bln_full
                               /\ button_status = "UP"
                               /\ seen_status \in {"DOWN", "HELD"}
                            THEN Append(released, button_value)
                            ELSE released
                /\ IF u.code = kill_code /\ kill_code # <<>>
                   THEN /\ rtl_fm' = stop.rtl_fm
                        /\ kill' = stop.kill
                   ELSE UNCHANGED <<rtl_fm, kill>>
       ELSE UNCHANGED <<code_buffer, code, last_keypress, rtl_fm, kill,
                        released>>
    /\ UNCHANGED <<button_value, button_status, snr, bln_full, data, now,
                   seen_status, seen_value, calls, config, bands, fft, pwm>>

\* Line 265: self.main().  The callback reads the engine state.
Callback ==
    /\ pc = "callback"
    /\ pc' = "check"
    /\ calls' = calls + 1
    /\ seen_status' = button_status
    /\ seen_value' = button_value
    /\ UNCHANGED <<button_value, button_status, snr, code_buffer, code,
                   last_keypress, kill, rtl_fm, bln_full, data, now, config,
                   bands, fft, pwm, released>>

\* Lines 268-270.
Check ==
    /\ pc = "check"
    /\ pc' = IF kill THEN "done" ELSE "read"
    /\ UNCHANGED <<button_value, button_status, snr, code_buffer, code,
                   last_keypress, kill, rtl_fm, bln_full, data, now,
                   seen_status, seen_value, calls, config, bands, fft,
                   pwm, released>>

Next == Start \/ Read \/ Decode \/ Sequence \/ Callback \/ Check

Spec == Init /\ [][Next]_vars

(***************************************************************************)
(* The classifier and the button update on every intensity vector: one     *)
(* chunk is decoded, and the same chunk is read once more.                 *)
(***************************************************************************)
InitClassify ==
    /\ Constructed
    /\ enable_sequence = FALSE
    /\ code_terminator = ""
    /\ kill_code = <<>>
    /\ code_timeout \in Timeouts
    /\ snr_threshold \in ClassifyThresholds
    /\ floor_div_zero \in FloorDivZero
    /\ chunk_size = 3600
    /\ sample_rate \in SampleRates
    /\ pc = "start"

ReadFirst == data = <<>> /\ \E d \in AllChunks : ReadStep("full", d, 1)

ReadSame == data # <<>> /\ now = 1 /\ ReadStep("full", data, 1)

NextClassify ==
    Start \/ ReadFirst \/ ReadSame \/ Decode \/ Sequence \/ Callback \/ Check

SpecClassify == InitClassify /\ [][NextClassify]_vars

(***************************************************************************)
(* The rover: the engine as dtmf_rover.py configures it, with main() of    *)
(* dtmf_rover.py as the callback.                                          *)
(***************************************************************************)
InitRover ==
    /\ Constructed
    /\ enable_sequence = FALSE
    /\ code_terminator = ""
    /\ kill_code = <<>>
    /\ code_timeout \in Timeouts
    /\ snr_threshold \in RoverThresholds
    /\ floor_div_zero \in FloorDivZero
    /\ chunk_size = 3600
    /\ sample_rate \in SampleRates
    /\ pc = "start"

ReadRover ==
    \E outcome \in {"full", "eof", "error"}, d \in RoverChunks,
       tick \in 0..MaxTick :
        ReadStep(outcome, d, tick)

\* Line 265 with dtmf.main = main of dtmf_rover.py (lines 108-127).
RoverCallback ==
    /\ pc = "callback"
    /\ pc' = "check"
    /\ calls' = calls + 1
    /\ seen_status' = button_status
    /\ seen_value' = button_value
    /\ pwm' = main(pwm, button_status, button_value)
    /\ UNCHANGED <<button_value, button_status, snr, code_buffer, code,
                   last_keypress, kill, rtl_fm, bln_full, data, now, config,
                   bands, fft, released>>

NextRover ==
    Start \/ ReadRover \/ Decode \/ Sequence \/ RoverCallback \/ Check

SpecRover == InitRover /\ [][NextRover]_vars

(***************************************************************************)
(* The spectral front end: the chunk read is given by the magnitudes of    *)
(* its transform, from which the band intensities are taken.               *)
(***************************************************************************)
InitAnalyzer ==
    /\ Constructed
    /\ enable_sequence = FALSE
    /\ code_terminator = ""
    /\ kill_code = <<>>
    /\ code_timeout \in Timeouts
    /\ snr_threshold \in Thresholds
    /\ floor_div_zero \in FloorDivZero
    /\ chunk_size \in {3600, 2}
    /\ sample_rate \in SampleRates
    /\ pc = "start"

\* Lines 182-203: a full chunk is read and transformed (the first chunk only).
ReadSpectrum ==
    /\ pc = "read"
    /\ rtl_fm = "running"
    /\ fft = <<>>
    /\ \E m \in Spectra(chunk_size) : fft' = m
    /\ bln_full' = TRUE
    /\ calls' = 0
    /\ pc' = "analyze"
    /\ UNCHANGED <<button_value, button_status, snr, code_buffer, code,
                   last_keypress, kill, rtl_fm, data, now, seen_status,
                   seen_value, config, bands, pwm, released>>

\* Lines 205-209.
Analyze ==
    /\ pc = "analyze"
    /\ IF AnalysisFails(chunk_size, start, end)
       THEN pc' = "crashed" /\ UNCHANGED data
       ELSE pc' = "decode" /\ data' = BandIntensities(fft, start, end)
    /\ UNCHANGED <<button_value, button_status, snr, code_buffer, code,
                   last_keypress, kill, rtl_fm, bln_full, now, fft,
                   seen_status, seen_value, calls, config, bands,
                   pwm, released>>

NextAnalyzer ==
    Start \/ ReadSpectrum \/ Analyze \/ Decode \/ Sequence \/ Callback \/ Check

SpecAnalyzer == InitAnalyzer /\ [][NextAnalyzer]_vars

(***************************************************************************)
(* Properties.                                                             *)
(***************************************************************************)
Pressed == {"DOWN", "HELD"}

\* The iteration now at its callback decoded a chunk with SNR below threshold.
DecodedLow == bln_full /\ ~SnrGE(snr, snr_threshold)

\* C1 as stated: after a drop of the SNR below the threshold in status DOWN
\* or HELD the callback sees UP with the value retained, the callback of the
\* following iteration sees NONE with an empty value, and so no two
\* consecutive callbacks see UP.
C1_Original ==
    pc = "callback" =>
        /\ (seen_status \in Pressed /\ DecodedLow) =>
               (button_status = "UP" /\ button_value = seen_value)
        /\ seen_status = "UP" => (button_status = "" /\ button_value = "")

\* C1 amended: a drop of the SNR below the threshold in a decoded iteration
\* in status DOWN or HELD shows the callback UP with the value retained; if
\* the following iteration is decoded too and its SNR is below the threshold
\* its callback sees NONE with an empty value; two consecutive callbacks see
\* UP only when the read of the second iteration failed.
C1_OneUpPulse ==
    pc = "callback" =>
        /\ (seen_status \in Pressed /\ DecodedLow) =>
               (button_status = "UP" /\ button_value = seen_value)
        /\ (seen_status = "UP" /\ DecodedLow) =>
               (button_status = "" /\ button_value = "")
        /\ (seen_status = "UP" /\ button_status = "UP") => ~bln_full

\* The callback after an UP pulse is about to see NONE.
C1_Witness ==
    /\ pc = "callback"
    /\ seen_status = "UP"
    /\ seen_value = "9"
    /\ DecodedLow
    /\ button_status = ""

\* update_buffer runs within the timeout.
InTime == pc = "sequence" /\ enable_sequence /\ now - last_keypress <= code_timeout

\* update_buffer runs after the timeout.
TimedOut == pc = "sequence" /\ enable_sequence /\ now - last_keypress > code_timeout

\* C2 as stated: within the timeout, the update that processes the release
\* of the terminator sets code to the symbols s1..sn released since
\* code_buffer was last emptied and leaves code_buffer empty; every other
\* update leaves code empty.
C2_Original ==
    [][(pc = "sequence" /\ enable_sequence) =>
           /\ code' = IF /\ now - last_keypress <= code_timeout
                         /\ bln_full
                         /\ button_status = "UP"
                         /\ seen_status \in Pressed
                         /\ button_value = code_terminator
                      THEN released
                      ELSE <<>>
           /\ code' # <<>> => code_buffer' = <<>>]_vars

\* C3: once code equals a non-empty kill_code the kill flag is set and rtl_fm
\* has been killed; with the flag set the loop is past its sequence step and
\* only the callback and the exit remain: no chunk is read, no second
\* callback runs; the loop is left only with the flag set.
C3_KillStopsLoop ==
    /\ (enable_sequence /\ kill_code # <<>> /\ code = kill_code) =>
           (kill /\ rtl_fm = "killed")
    /\ kill => /\ rtl_fm = "killed"
               /\ code = kill_code
               /\ pc \in {"callback", "check", "done"}
               /\ pc = "callback" => calls = 0
               /\ pc \in {"check", "done"} => calls = 1
    /\ pc = "done" => kill

\* The loop has ended on the kill code 99.
C3_Witness ==
    /\ pc = "done"
    /\ kill
    /\ rtl_fm = "killed"
    /\ code = <<"9", "9">>

\* C4: an update that runs after the timeout leaves code_buffer and code
\* empty and last_keypress at the current time, whatever the button status:
\* a release seen by that update is not appended and nothing buffered before
\* survives.
C4_TimeoutClears ==
    [][TimedOut => /\ code_buffer' = <<>>
                   /\ code' = <<>>
                   /\ last_keypress' = now]_vars

\* An update has run with a release of a non-terminator symbol pending and
\* has dropped it: code_buffer is empty although the status is UP.
C4_Witness ==
    /\ pc = "callback"
    /\ enable_sequence
    /\ button_status = "UP"
    /\ button_value # code_terminator
    /\ code_buffer = <<>>
    /\ code = <<>>
    /\ last_keypress = now

\* The iteration now at its callback decoded a chunk with SNR at or above the
\* threshold (a key is always found: every pair of a low and a high tone is
\* in KEYS).
DecodedHigh == bln_full /\ SnrGE(snr, snr_threshold)

\* C5 as stated: on a detection of key K the status becomes DOWN if K differs
\* from the current value or the status was NONE or UP, and HELD only if K
\* equals the current value and the status was DOWN or HELD.
C5_Original ==
    (pc = "callback" /\ DecodedHigh) =>
        /\ (seen_value # button_value \/ seen_status \in {"", "UP"}) =>
               button_status = "DOWN"
        /\ button_status = "HELD" =>
               (seen_value = button_value /\ seen_status \in Pressed)

\* The low tone lo and the high tone hi are the strict maxima of their groups.
Dominant(I, lo, hi) ==
    /\ \A i \in 1..4 : i # lo => I[i] < I[lo]
    /\ \A i \in 5..8 : i # hi => I[i] < I[hi]

\* floor(signal / noise) in exact arithmetic, for noise > 0
ExactSnr(I) == (3 * signal2(I)) \div noise6(I)

\* C6 as stated: for each pair of the key table and every intensity vector in
\* which the pair strictly dominates and floor(signal/noise) >= threshold,
\* the first decode from NONE gives the pair's symbol with DOWN and the decode
\* of the same chunk in the next iteration gives it with HELD.
C6_Original ==
    \A lo \in 1..4, hi \in 5..8 :
        (/\ pc = "sequence"
         /\ data # <<>>
         /\ Dominant(data, lo, hi)
         /\ noise6(data) > 0
         /\ ExactSnr(data) >= snr_threshold) =>
            /\ button_value = KEYS[<<DTMF_FREQ[lo], DTMF_FREQ[hi]>>]
            /\ now = 1 => button_status = "DOWN"
            /\ now = 2 => button_status = "HELD"

\* The fields of the engine that the decode step and update_buffer own.
engine == <<button_value, button_status, snr, code_buffer, code,
            last_keypress, kill>>

\* C7 as stated: in an iteration whose read failed neither the decode step nor
\* update_buffer runs: no step of that iteration changes the button, snr,
\* code_buffer, code, last_keypress or the kill flag, and the loop goes on.
C7_Original ==
    [][(pc # "read" /\ ~bln_full) =>
           (engine' = engine /\ pc' \notin {"done", "crashed"})]_vars

\* The current iteration is over: it reached the test of the kill flag, left
\* the loop there, or was aborted by an exception.
IterationOver == pc \in {"check", "done", "crashed"}

\* C8 as stated: every iteration invokes the callback exactly once, after its
\* button and sequence-buffer updates, whatever happened in the iteration.
C8_Original ==
    /\ IterationOver => calls = 1
    /\ pc \in {"decode", "sequence", "callback"} => calls = 0

\* C9 as stated: the loop is left only through the kill code (sequence
\* detection enabled, kill_code non-empty, code equal to it); with sequence
\* detection disabled the kill flag is never set, the loop is never left
\* and code and code_buffer stay empty.
C9_Original ==
    /\ pc \in {"done", "crashed"} =>
           (enable_sequence /\ kill_code # <<>> /\ code = kill_code)
    /\ ~enable_sequence =>
           (~kill /\ pc \notin {"done", "crashed"}
                  /\ code = <<>> /\ code_buffer = <<>>)

\* C10 as stated: a chunk whose six non-dominant intensities are all zero is
\* decoded without a fault and like one below the threshold: the button does
\* not go to DOWN or HELD.
C10_Original ==
    (pc = "sequence" /\ bln_full /\ data # <<>> /\ noise6(data) = 0) =>
        button_status \notin Pressed

\* A band of the configuration has no bin in its frequency range.
Unresolved == \E b \in 1..8 : InBand(b, chunk_size, sample_rate) = {}

\* start() is past its startup: the loop has been entered.
InLoop == pc \notin {"start", "failed"}

\* C11 as stated: with an odd chunk size, or one too small to give every band
\* a non-empty bin range, start() fails at startup: the loop is never entered
\* and no chunk is read.
C11_Original ==
    (chunk_size % 2 = 1 \/ Unresolved) => ~InLoop

\* |fft_freqs[k] - f|, times n
Dist(k, f) ==
    LET d == k * sample_rate - f * FreqN(chunk_size)
    IN  IF d < 0 THEN -d ELSE d

\* The range of band b holds a bin nearest to the band's centre frequency.
HoldsNearest(b) ==
    \E k \in start[b]..end[b] :
        \A j \in 0..(NumBins(chunk_size) - 1) :
            Dist(k, DTMF_FREQ[b]) <= Dist(j, DTMF_FREQ[b])

\* C12 as stated: once startup is over the ranges [start[i], end[i]] are
\* non-empty, ordered and disjoint (end[i] < start[i+1]), each holds the bin
\* nearest to its band's centre, and the loop never modifies them.
C12_Original ==
    /\ [](InLoop => /\ \A b \in 1..8 : start[b] <= end[b]
                    /\ \A b \in 1..7 : end[b] < start[b + 1]
                    /\ \A b \in 1..8 : HoldsNearest(b))
    /\ [][InLoop => UNCHANGED bands]_vars

\* C13 as stated: the callback of every iteration, the one that matched the
\* kill code included, runs before rtl_fm is terminated.
C13_Original == pc = "callback" => rtl_fm = "running"

\* The release of the button happened in the iteration now at its sequence
\* step: the chunk was decoded and the previous callback saw DOWN or HELD.
ReleasedNow == bln_full /\ button_status = "UP" /\ seen_status \in Pressed

\* C14: code changes only in the sequence step; the callback finds it
\* non-empty only if that step appended, within the timeout, the terminator
\* released in this very iteration, and then code_buffer is empty and code
\* was empty at the callback before.
C14_CodeTransient ==
    [][IF pc = "sequence"
       THEN code' # <<>> =>
                /\ ReleasedNow
                /\ button_value = code_terminator
                /\ now - last_keypress <= code_timeout
                /\ code_buffer' = <<>>
                /\ code = <<>>
       ELSE code' = code]_vars

\* The callback is about to see the code 9, one iteration long.
C14_Witness ==
    /\ pc = "callback"
    /\ code = <<"9">>
    /\ code_buffer = <<>>
    /\ button_status = "UP"
    /\ seen_status \in Pressed

\* C15 as stated: the release of a key within the timeout appends its symbol
\* once, and code_buffer grows in no other iteration, whatever reads fail.
C15_Original ==
    [][(pc = "sequence" /\ enable_sequence) =>
           /\ (ReleasedNow /\ now - last_keypress <= code_timeout
                           /\ button_value # code_terminator) =>
                  code_buffer' = Append(code_buffer, button_value)
           /\ ~ReleasedNow => Len(code_buffer') <= Len(code_buffer)]_vars

\* C16 as stated: a read that returns no bytes is not decoded: the button
\* and snr stay as they are and the loop goes on to its sequence step.
C16_Original ==
    [][(pc = "decode" /\ data = <<>>) =>
           (pc' = "sequence" /\ UNCHANGED <<button_value, button_status, snr>>)]_vars

\* C18 as stated: the intensity of a band is the largest magnitude over the
\* bins start[b]..end[b], both ends included.
C18_Original ==
    pc = "decode" =>
        \A b \in 1..8 : data[b] = SetMax({fft[k] : k \in start[b]..end[b]})

\* The 16 key symbols.
Symbols == {KEYS[p] : p \in DOMAIN KEYS}

\* C19: the status is NONE, DOWN, HELD or UP, and the value is empty exactly
\* when the status is NONE; otherwise it is one of the 16 symbols.
C19_ButtonWellFormed ==
    /\ button_status \in {"", "DOWN", "HELD", "UP"}
    /\ button_value = "" <=> button_status = ""
    /\ button_status # "" => button_value \in Symbols

\* update_buffer is about to take the release pulse of key 9.
C19_Witness ==
    /\ pc = "sequence"
    /\ enable_sequence
    /\ button_status = "UP"
    /\ button_value = "9"

\* C20: code_buffer grows, and code is set, only by an update that runs no
\* later than code_timeout after last_keypress, and that update moves
\* last_keypress to the current time; while code_buffer stays as it is and
\* non-empty, last_keypress stays too: it is the time of the last append.
C20_KeypressTime ==
    [][IF pc = "sequence"
       THEN /\ (Len(code_buffer') > Len(code_buffer) \/ code' # <<>>) =>
                   /\ now - last_keypress <= code_timeout
                   /\ last_keypress' = now
            /\ (code_buffer' = code_buffer /\ code_buffer # <<>>) =>
                   last_keypress' = last_keypress
       ELSE UNCHANGED <<code_buffer, last_keypress>>]_vars

\* Two symbols are buffered, the second appended at a time after the start.
C20_Witness ==
    /\ pc = "callback"
    /\ Len(code_buffer) = 2
    /\ last_keypress = now
    /\ now >= 2

\* C21 as stated: no motor of the rover has its forward pin and its reverse
\* pin at a non-zero duty cycle at the same time.
C21_Original ==
    /\ ~(pwm[MOTOR1_FORWARD] # 0 /\ pwm[MOTOR1_REVERSE] # 0)
    /\ ~(pwm[MOTOR2_FORWARD] # 0 /\ pwm[MOTOR2_REVERSE] # 0)

====
